---------------------------- MODULE Spec2Model ----------------------------
(***************************************************************************)
(* Ann Nova Defense (src/src/App.tsx): the per-frame simulation `update`,  *)
(* the input handler `handleCanvasClick` and the match reset `initGame`.   *)
(*                                                                         *)
(* Lengths are fixed-point integers, UnitsPerPx units to the pixel, so     *)
(* that 0.8, 1.5 and 0.8 * (1 + score / 500) are whole numbers of units    *)
(* (score is a multiple of 20).  Floating-point rounding is not modelled.  *)
(*                                                                         *)
(* React: `score` and `gameState` are useState cells.  `update` closes     *)
(* over the values of the render that created it, so inside one tick every *)
(* read of `score` / `gameState` sees the value from before the tick, and  *)
(* the setScore / setGameState calls of the tick take effect together when *)
(* the callback has returned.  The re-render and the effect of lines       *)
(* 395-398 (cancel the pending frame, request a frame for the new closure) *)
(* are taken to run before the next animation frame fires, so a frame      *)
(* always runs the closure of the current `score` / `gameState`.           *)
(***************************************************************************)
EXTENDS Integers, Sequences, FiniteSets, TLC

VARIABLES
    gameState,   \* useState<GameState>               (line 97)
    score,       \* useState(0)                       (line 98)
    rockets,     \* rocketsRef.current                (line 102)
    missiles,    \* missilesRef.current               (line 103)
    explosions,  \* explosionsRef.current             (line 104)
    cities,      \* citiesRef.current                 (line 105)
    turrets,     \* turretsRef.current                (line 106)
    nextId,      \* nextIdRef.current                 (line 108)
    sinceSpawn,  \* (time of the latest frame or reset) - lastSpawnTimeRef.current, in ms
    pending,     \* number of requested animation frames neither fired nor cancelled
    height       \* canvas.height, px                 (lines 170, 446)

vars == <<gameState, score, rockets, missiles, explosions, cities, turrets,
          nextId, sinceSpawn, pending, height>>

---------------------------------------------------------------------------
(* Program constants *)
CITY_COUNT == 6
TURRET_COUNT == 3
WIN_SCORE == 1000
ROCKET_SCORE == 20
TURRET_AMMO == <<20, 40, 20>>
MISSILE_SPEED == 6            \* px per tick
IMPACT_RADIUS == 30           \* px: maxRadius of an impact / chain explosion
BLAST_RADIUS == 80            \* px: maxRadius of a missile explosion
DAMAGE_RANGE == 30            \* px: horizontal reach of a ground impact
GROUND_OFFSET == 20           \* px: rockets aim at y = height - 20
LAUNCH_OFFSET == 50           \* px: missiles start at y = height - 50
MIN_SPAWN_MS == 500
BASE_SPAWN_MS == 2000

(* Fixed-point scale: 1 px = 250 units, 0.8 px = 200, 1.5 px = 375,        *)
(* 0.8 * score / 500 px = 2 * score / 5 units.                             *)
UnitsPerPx == 250
GROW == 375                   \* 1.5 px per tick
SHRINK == 200                 \* 0.8 px per tick
BASE_ROCKET_SPEED == 200      \* 0.8 px per tick

(* Bounds of the model *)
Width == 60                   \* window.innerWidth = canvas.width, px
Height == 25                  \* window.innerHeight = canvas.height, px
MaxId == 4                    \* entities created in a run from the start screen
MaxEndgame == 5               \* entities created in a run from the endgame state
MaxRockets == 1               \* rockets in the air at once
MaxMissiles == 1              \* missiles in the air at once
MaxQuietIds == 2              \* entities created in a run of the quiet match
MaxFlight == 16               \* ticks a missile is followed in the quiet match
TallHeight == 55              \* window.innerHeight of the quiet match, px

Px(n) == n * UnitsPerPx
Abs(n) == IF n < 0 THEN -n ELSE n
Max(a, b) == IF a > b THEN a ELSE b
Sq(n) == n * n

Point(px, py) == [x |-> px, y |-> py]

(* getDistance(p1, p2) < d, for d an integer number of units *)
CloserThan(p1, p2, d) == d > 0 /\ Sq(p1.x - p2.x) + Sq(p1.y - p2.y) < Sq(d)

---------------------------------------------------------------------------
(* initGame *)
TotalSlots == TURRET_COUNT + CITY_COUNT
SlotWidth == (Width * UnitsPerPx) \div (TotalSlots + 1)
TurretSlots == <<1, 5, 9>>
CitySlots == <<2, 3, 4, 6, 7, 8>>

FreshTurrets ==
    [k \in 1..TURRET_COUNT |->
        [id |-> TurretSlots[k], x |-> TurretSlots[k] * SlotWidth,
         ammo |-> TURRET_AMMO[k], maxAmmo |-> TURRET_AMMO[k], active |-> TRUE]]

FreshCities ==
    [k \in 1..CITY_COUNT |->
        [id |-> CitySlots[k], x |-> CitySlots[k] * SlotWidth, active |-> TRUE]]

(* The effect of lines 395-398, run when `update` is a new closure: the     *)
(* cleanup cancels the frame frameIdRef.current names (the frame requested  *)
(* last, if it has not fired), then a frame is requested for the new        *)
(* closure.                                                                 *)
Cancelled(n) == IF n > 0 THEN n - 1 ELSE 0

(* faulty variant: the effect has no cleanup *)
EffectNoCleanup(n) == n + 1

Effect(n) == Cancelled(n) + 1

(* faulty variant: the explosions of the previous match are kept *)
InitGameKeepsExplosions ==
    /\ gameState \in {"START", "WON", "LOST"}
    /\ turrets' = FreshTurrets
    /\ cities' = FreshCities
    /\ rockets' = <<>>
    /\ missiles' = <<>>
    /\ score' = 0
    /\ gameState' = "PLAYING"
    /\ sinceSpawn' = 0
    /\ pending' = Effect(pending)
    /\ UNCHANGED <<nextId, explosions, height>>

InitGame ==
    /\ gameState \in {"START", "WON", "LOST"}
    /\ turrets' = FreshTurrets
    /\ cities' = FreshCities
    /\ rockets' = <<>>
    /\ missiles' = <<>>
    /\ explosions' = <<>>
    /\ score' = 0
    /\ gameState' = "PLAYING"
    /\ sinceSpawn' = 0
    /\ pending' = Effect(pending)
    /\ UNCHANGED <<nextId, height>>

---------------------------------------------------------------------------
(* update: 1. Spawn Rockets *)
(* faulty variant: the interval has no floor *)
SpawnRateNoFloor(sc) == BASE_SPAWN_MS - 2 * sc

SpawnRate(sc) == Max(MIN_SPAWN_MS, BASE_SPAWN_MS - 2 * sc)
RocketSpeed(sc) == BASE_ROCKET_SPEED + (2 * sc) \div 5

RECURSIVE ActiveXs(_, _)
ActiveXs(insts, i) ==
    IF i > Len(insts) THEN <<>>
    ELSE (IF insts[i].active THEN <<insts[i].x>> ELSE <<>>) \o ActiveXs(insts, i + 1)

ActiveTargets(cs, ts) == ActiveXs(cs, 1) \o ActiveXs(ts, 1)

(* `age` is a history field, not in the source: the number of ticks that   *)
(* have updated the explosion.                                             *)
NewExplosion(id, pos, maxR) ==
    [id |-> id, pos |-> pos, radius |-> 0, maxRadius |-> Px(maxR),
     growing |-> TRUE, done |-> FALSE, age |-> 0]

(* w is the world the tick works on; sc is the score the closure holds *)
SpawnRockets(w, sc, time, pick) ==
    IF time > SpawnRate(sc)
    THEN LET targets == ActiveTargets(w.cities, w.turrets)
         IN  IF Len(targets) > 0
             THEN LET tx == targets[pick + 1]
                      startX == tx
                  IN  [w EXCEPT !.rockets = Append(@,
                              [id |-> w.nextId,
                               start |-> Point(startX, 0),
                               current |-> Point(startX, 0),
                               target |-> Point(tx, Px(height - GROUND_OFFSET)),
                               speed |-> RocketSpeed(sc)]),
                          !.nextId = @ + 1,
                          !.sinceSpawn = 0]
             ELSE [w EXCEPT !.sinceSpawn = 0]
    ELSE [w EXCEPT !.sinceSpawn = time]

(* update: 2. Update Rockets *)
MoveRocket(r) ==
    LET dy == r.target.y - r.start.y
        vy == IF dy > 0 THEN r.speed ELSE -r.speed
    IN  [r EXCEPT !.current.y = @ + vy]

(* faulty variant: the reach of an impact includes 30 px *)
DamageInclusive(insts, x) ==
    [i \in DOMAIN insts |->
        IF insts[i].active /\ Abs(insts[i].x - x) <= Px(DAMAGE_RANGE)
        THEN [insts[i] EXCEPT !.active = FALSE]
        ELSE insts[i]]

(* faulty variant: an impact flips the installations in range *)
DamageFlips(insts, x) ==
    [i \in DOMAIN insts |->
        IF Abs(insts[i].x - x) < Px(DAMAGE_RANGE)
        THEN [insts[i] EXCEPT !.active = ~@]
        ELSE insts[i]]

Damage(insts, x) ==
    [i \in DOMAIN insts |->
        IF insts[i].active /\ Abs(insts[i].x - x) < Px(DAMAGE_RANGE)
        THEN [insts[i] EXCEPT !.active = FALSE]
        ELSE insts[i]]

RECURSIVE StepRockets(_, _)
StepRockets(w, i) ==
    IF i > Len(w.rockets) THEN w
    ELSE LET r == MoveRocket(w.rockets[i])
         IN  IF r.current.y >= r.target.y
             THEN StepRockets(
                    [w EXCEPT !.rockets[i] = [r EXCEPT !.id = -1],
                              !.explosions = Append(@,
                                  NewExplosion(w.nextId, r.current, IMPACT_RADIUS)),
                              !.nextId = @ + 1,
                              !.cities = Damage(@, r.current.x),
                              !.turrets = Damage(@, r.current.x)],
                    i + 1)
             ELSE StepRockets([w EXCEPT !.rockets[i] = r], i + 1)

Alive(e) == e.id # -1

UpdateRockets(w) ==
    LET v == StepRockets(w, 1)
    IN  [v EXCEPT !.rockets = SelectSeq(@, Alive)]

(* update: 3. Update Missiles *)
Dist2(m) == Sq(m.target.x - m.start.x) + Sq(m.target.y - m.start.y)

(* getDistance(missile.current, missile.target) < missile.speed after       *)
(* `flown` steps of length speed along start -> target.  With start =      *)
(* target the velocity is 0/0 * speed = NaN and no comparison succeeds.    *)
Reached(m) ==
    /\ Dist2(m) > 0
    /\ Sq(Px(m.speed) * (m.flown + 1)) > Dist2(m)
    /\ (m.flown > 1 => Sq(Px(m.speed) * (m.flown - 1)) < Dist2(m))

RECURSIVE StepMissilesAtLaunch(_, _)
RECURSIVE StepMissiles(_, _)

(* faulty variant: the explosion is put at the launch point *)
StepMissilesAtLaunch(w, i) ==
    IF i > Len(w.missiles) THEN w
    ELSE LET m == [w.missiles[i] EXCEPT !.flown = @ + 1]
         IN  IF Reached(m)
             THEN StepMissilesAtLaunch(
                    [w EXCEPT !.missiles[i] = [m EXCEPT !.id = -1],
                              !.explosions = Append(@,
                                  NewExplosion(w.nextId, m.start, BLAST_RADIUS)),
                              !.nextId = @ + 1],
                    i + 1)
             ELSE StepMissilesAtLaunch([w EXCEPT !.missiles[i] = m], i + 1)

StepMissiles(w, i) ==
    IF i > Len(w.missiles) THEN w
    ELSE LET m == [w.missiles[i] EXCEPT !.flown = @ + 1]
         IN  IF Reached(m)
             THEN StepMissiles(
                    [w EXCEPT !.missiles[i] = [m EXCEPT !.id = -1],
                              !.explosions = Append(@,
                                  NewExplosion(w.nextId, m.target, BLAST_RADIUS)),
                              !.nextId = @ + 1],
                    i + 1)
             ELSE StepMissiles([w EXCEPT !.missiles[i] = m], i + 1)

UpdateMissiles(w) ==
    LET v == StepMissiles(w, 1)
    IN  [v EXCEPT !.missiles = SelectSeq(@, Alive)]

(* update: 4. Update Explosions *)
(* faulty variant: the growth stops at maxRadius *)
AdvanceClamped(e) ==
    IF e.growing
    THEN LET r == e.radius + GROW
         IN  [e EXCEPT !.radius = IF r >= e.maxRadius THEN e.maxRadius ELSE r,
                       !.growing = ~(r >= e.maxRadius), !.age = @ + 1]
    ELSE LET r == e.radius - SHRINK
         IN  [e EXCEPT !.radius = r, !.done = (r <= 0), !.age = @ + 1]

Advance(e) ==
    IF e.growing
    THEN LET r == e.radius + GROW
         IN  [e EXCEPT !.radius = r, !.growing = ~(r >= e.maxRadius), !.age = @ + 1]
    ELSE LET r == e.radius - SHRINK
         IN  [e EXCEPT !.radius = r, !.done = (r <= 0), !.age = @ + 1]

Hits(e, r) == CloserThan(e.pos, r.current, e.radius)

RECURSIVE Collide(_, _, _)
Collide(w, e, j) ==
    IF j > Len(w.rockets) THEN w
    ELSE IF Hits(e, w.rockets[j])
         THEN Collide(
                [w EXCEPT !.rockets[j].id = -1,
                          !.gained = @ + ROCKET_SCORE,
                          !.explosions = Append(@,
                              NewExplosion(w.nextId, w.rockets[j].current, IMPACT_RADIUS)),
                          !.nextId = @ + 1],
                e, j + 1)
         ELSE Collide(w, e, j + 1)

(* forEach visits the n explosions present when the loop starts *)
RECURSIVE StepExplosions(_, _, _)
StepExplosions(w, i, n) ==
    IF i > n THEN w
    ELSE LET e == Advance(w.explosions[i])
         IN  StepExplosions(Collide([w EXCEPT !.explosions[i] = e], e, 1), i + 1, n)

NotDone(e) == ~e.done

(* faulty variant: the explosions chained in the tick are advanced in it *)
UpdateExplosionsEager(w) ==
    LET v == StepExplosions(w, 1, Len(w.explosions))
        all == [k \in DOMAIN v.explosions |->
                   IF k > Len(w.explosions)
                   THEN Advance(v.explosions[k])
                   ELSE v.explosions[k]]
    IN  [v EXCEPT !.explosions = SelectSeq(all, NotDone)]

UpdateExplosions(w) ==
    LET v == StepExplosions(w, 1, Len(w.explosions))
    IN  [v EXCEPT !.explosions = SelectSeq(@, NotDone)]

(* update: 5. Check Win/Loss: two setGameState calls, the later one stands *)
AllTurretsDown(ts) == \A i \in DOMAIN ts : ~ts[i].active

CheckWinLoss(gs, sc, ts) ==
    LET afterWin == IF sc >= WIN_SCORE THEN "WON" ELSE gs
    IN  IF AllTurretsDown(ts) THEN "LOST" ELSE afterWin

(* update: the guards of lines 162-167 *)
(* faulty variant: the match state is not checked *)
RunsUnchecked(gs, ctx) == ctx

Runs(gs, ctx) == gs = "PLAYING" /\ ctx

(* The world a tick starts from *)
Before ==
    [rockets |-> rockets, missiles |-> missiles, explosions |-> explosions,
     cities |-> cities, turrets |-> turrets, nextId |-> nextId,
     sinceSpawn |-> sinceSpawn, gained |-> 0]

Tick(time, ctx, pick) ==
    /\ pending > 0
    /\ IF Runs(gameState, ctx)
       THEN \E w1 \in {SpawnRockets(Before, score, time, pick)} :
            \E w2 \in {UpdateRockets(w1)} :
            \E w3 \in {UpdateMissiles(w2)} :
            \E w \in {UpdateExplosions(w3)} :
                /\ rockets' = w.rockets
                /\ missiles' = w.missiles
                /\ explosions' = w.explosions
                /\ cities' = w.cities
                /\ turrets' = w.turrets
                /\ nextId' = w.nextId
                /\ sinceSpawn' = w.sinceSpawn
                /\ score' = score + w.gained
                /\ gameState' = CheckWinLoss(gameState, score, w.turrets)
                /\ pending' =
                      LET requested == (pending - 1) + 1
                      IN  IF \/ CheckWinLoss(gameState, score, w.turrets) # gameState
                             \/ w.gained # 0
                          THEN Effect(requested)
                          ELSE requested
                /\ UNCHANGED height
       ELSE /\ pending' = pending - 1
            /\ UNCHANGED <<gameState, score, rockets, missiles, explosions, cities,
                           turrets, nextId, sinceSpawn, height>>

---------------------------------------------------------------------------
(* handleCanvasClick *)
RECURSIVE ClosestUnloaded(_, _, _, _, _)
RECURSIVE ClosestLast(_, _, _, _, _)
RECURSIVE Closest(_, _, _, _, _)

(* faulty variant: the ammo of a turret is not looked at *)
ClosestUnloaded(ts, x, i, best, minDist) ==
    IF i > Len(ts) THEN best
    ELSE IF ts[i].active /\ (best = 0 \/ Abs(ts[i].x - x) < minDist)
         THEN ClosestUnloaded(ts, x, i + 1, i, Abs(ts[i].x - x))
         ELSE ClosestUnloaded(ts, x, i + 1, best, minDist)

(* faulty variant: d <= minDist, the last of the closest turrets wins a tie *)
ClosestLast(ts, x, i, best, minDist) ==
    IF i > Len(ts) THEN best
    ELSE IF ts[i].active /\ ts[i].ammo > 0 /\ (best = 0 \/ Abs(ts[i].x - x) <= minDist)
         THEN ClosestLast(ts, x, i + 1, i, Abs(ts[i].x - x))
         ELSE ClosestLast(ts, x, i + 1, best, minDist)

Closest(ts, x, i, best, minDist) ==
    IF i > Len(ts) THEN best
    ELSE IF ts[i].active /\ ts[i].ammo > 0 /\ (best = 0 \/ Abs(ts[i].x - x) < minDist)
         THEN Closest(ts, x, i + 1, i, Abs(ts[i].x - x))
         ELSE Closest(ts, x, i + 1, best, minDist)

BestTurret(ts, x) == Closest(ts, x, 1, 0, 0)

(* Pointer positions in canvas pixels *)
ClickPoints == {<<18, 0>>, <<30, 5>>, <<42, 0>>}

(* faulty variant: clicks are served in every match state *)
AcceptsAlways(gs) == TRUE

Accepts(gs) == gs = "PLAYING"

(* faulty variant: the launch point is 50 px above the ground plane *)
ClickAboveGround(x, y) ==
    LET b == BestTurret(turrets, Px(x))
    IN  IF Accepts(gameState) /\ b # 0
        THEN /\ turrets' = [turrets EXCEPT ![b].ammo = @ - 1]
             /\ missiles' = Append(missiles,
                    [id |-> nextId,
                     start |-> Point(turrets[b].x,
                                     Px(height - GROUND_OFFSET - LAUNCH_OFFSET)),
                     target |-> Point(Px(x), Px(y)),
                     flown |-> 0,
                     speed |-> MISSILE_SPEED,
                     turretIndex |-> b - 1])
             /\ nextId' = nextId + 1
             /\ UNCHANGED <<gameState, score, rockets, explosions, cities,
                            sinceSpawn, pending, height>>
        ELSE UNCHANGED vars

Click(x, y) ==
    LET b == BestTurret(turrets, Px(x))
    IN  IF Accepts(gameState) /\ b # 0
        THEN /\ turrets' = [turrets EXCEPT ![b].ammo = @ - 1]
             /\ missiles' = Append(missiles,
                    [id |-> nextId,
                     start |-> Point(turrets[b].x, Px(height - LAUNCH_OFFSET)),
                     target |-> Point(Px(x), Px(y)),
                     flown |-> 0,
                     speed |-> MISSILE_SPEED,
                     turretIndex |-> b - 1])
             /\ nextId' = nextId + 1
             /\ UNCHANGED <<gameState, score, rockets, explosions, cities,
                            sinceSpawn, pending, height>>
        ELSE UNCHANGED vars

---------------------------------------------------------------------------
Init ==
    /\ gameState = "START"
    /\ score = 0
    /\ rockets = <<>>
    /\ missiles = <<>>
    /\ explosions = <<>>
    /\ cities = <<>>
    /\ turrets = <<>>
    /\ nextId = 0
    /\ sinceSpawn = 0
    /\ pending = 1
    /\ height = Height

(* Inputs of a frame: the time since the previous frame, whether the canvas *)
(* and its 2d context are there, and the value of Math.random() that picks *)
(* the target (read only when a rocket is spawned).                        *)
Dts == {125, 2001}

Picks(time) ==
    IF gameState = "PLAYING" /\ time > SpawnRate(score)
    THEN 0..(Max(1, Len(ActiveTargets(cities, turrets))) - 1)
    ELSE {0}

Frame == \E dt \in Dts : \E pick \in Picks(sinceSpawn + dt) :
            Tick(sinceSpawn + dt, TRUE, pick)

FrameNoSurface == Tick(sinceSpawn, FALSE, 0)

Pointer == \E p \in ClickPoints : Click(p[1], p[2])

(* A step is taken while fewer than `limit` entities have been created *)
Bounded(limit) ==
    /\ nextId < limit
    /\ Len(rockets') <= MaxRockets
    /\ Len(missiles') <= MaxMissiles

Step == Frame \/ FrameNoSurface \/ Pointer \/ InitGame

Next == Step /\ Bounded(MaxId)

Spec == Init /\ [][Next]_vars

(* A late state of a match: 49 rockets have each been shot down in the air  *)
(* by one missile (rocket, missile, blast, chain explosion: 4 ids each),    *)
(* the first 20 missiles from the left turret and 29 from the middle one,   *)
(* and every explosion has faded.                                           *)
EndgameScore == WIN_SCORE - ROCKET_SCORE
EndgameIds == 4 * (EndgameScore \div ROCKET_SCORE)

EndgameTurrets ==
    [k \in 1..TURRET_COUNT |->
        [FreshTurrets[k] EXCEPT !.ammo = <<0, 11, 20>>[k]]]

EndgameInit ==
    /\ gameState = "PLAYING"
    /\ score = EndgameScore
    /\ rockets = <<>>
    /\ missiles = <<>>
    /\ explosions = <<>>
    /\ cities = FreshCities
    /\ turrets = EndgameTurrets
    /\ nextId = EndgameIds
    /\ sinceSpawn = 0
    /\ pending = 1
    /\ height = Height

NextEndgame == Step /\ Bounded(EndgameIds + MaxEndgame)

SpecEndgame == EndgameInit /\ [][NextEndgame]_vars

(* A quiet match on a fast display and a taller canvas: frames 7 ms apart   *)
(* (144 Hz), so that an explosion lives out its whole life before the next  *)
(* rocket is due; the launch height of the missiles (height - 50) is on the *)
(* canvas; at most MaxQuietIds entities are created and a missile is        *)
(* followed for MaxFlight ticks.                                            *)
FastDts == {7}

FrameFast == \E dt \in FastDts : \E pick \in Picks(sinceSpawn + dt) :
                Tick(sinceSpawn + dt, TRUE, pick)

QuietInit ==
    /\ gameState = "PLAYING"
    /\ score = 0
    /\ rockets = <<>>
    /\ missiles = <<>>
    /\ explosions = <<>>
    /\ cities = FreshCities
    /\ turrets = FreshTurrets
    /\ nextId = 0
    /\ sinceSpawn = 0
    /\ pending = 1
    /\ height = TallHeight

NextQuiet ==
    /\ FrameFast \/ Pointer
    /\ nextId' <= MaxQuietIds
    /\ Len(rockets') <= MaxRockets
    /\ Len(missiles') <= MaxMissiles
    /\ \A j \in DOMAIN missiles' : missiles'[j].flown <= MaxFlight

SpecQuiet == QuietInit /\ [][NextQuiet]_vars

---------------------------------------------------------------------------
(* Vocabulary of the properties *)

(* The step is a tick that ran the tick body *)
TickRan == gameState = "PLAYING" /\ (Frame \/ FrameFast)

Eligible(ts, i) == ts[i].active /\ ts[i].ammo > 0
SomeEligible == \E i \in DOMAIN turrets : Eligible(turrets, i)

(* Rockets that explosions marked in the tick that produced rs *)
Destroyed(rs) == Cardinality({j \in DOMAIN rs : rs[j].id = -1})

Untouched == UNCHANGED <<gameState, score, rockets, missiles, explosions, cities,
                         turrets, nextId, sinceSpawn>>

(* C1: a tick whose win/loss evaluation sees score >= 1000 and every turret *)
(* inactive ends in WON, not in LOST.                                       *)
C1_WonBeforeLost ==
    [][(TickRan /\ score >= WIN_SCORE /\ AllTurretsDown(turrets'))
          => gameState' = "WON"]_vars

(* C2: a tick adds exactly 20 to the score for each distinct rocket that    *)
(* explosions destroyed in it, and no other step of a match changes it.     *)
C2_ScorePerRocket ==
    [][/\ TickRan => score' = score + ROCKET_SCORE * Destroyed(rockets')
       /\ ~TickRan => (score' = score \/ InitGame)]_vars

(* C3: a tick ends in LOST exactly when every turret is inactive at its     *)
(* evaluation and the win condition does not apply.                         *)
C3_LostIffAllDown ==
    [][TickRan => ((gameState' = "LOST")
                    <=> (AllTurretsDown(turrets') /\ score < WIN_SCORE))]_vars

(* C4: within a match an inactive city or turret stays inactive; only       *)
(* initGame makes installations active again.                               *)
StaysDown(old, new) ==
    \A i \in DOMAIN old : ~old[i].active => (i \in DOMAIN new /\ ~new[i].active)

C4_NoResurrection ==
    [][InitGame \/ (StaysDown(cities, cities') /\ StaysDown(turrets, turrets'))]_vars

(* a rocket is in the air after an earlier impact took a city down *)
C4_Witness ==
    /\ gameState = "PLAYING"
    /\ \E i \in DOMAIN cities : ~cities[i].active
    /\ \E i \in DOMAIN turrets : ~turrets[i].active
    /\ Len(rockets) > 0

(* C5: 0 <= ammo <= maxAmmo always; within a match a turret's ammo changes  *)
(* only by a click that fires from it, by exactly -1; a tick changes none.  *)
AmmoInRange ==
    \A i \in DOMAIN turrets :
        0 <= turrets[i].ammo /\ turrets[i].ammo <= turrets[i].maxAmmo

FiredFrom(i) ==
    /\ Pointer
    /\ turrets'[i].ammo = turrets[i].ammo - 1
    /\ Len(missiles') = Len(missiles) + 1
    /\ missiles'[Len(missiles')].turretIndex = i - 1

SameAmmo == \A i \in DOMAIN turrets : turrets'[i].ammo = turrets[i].ammo

C5_Ammo ==
    /\ []AmmoInRange
    /\ [][InitGame \/ \A i \in DOMAIN turrets :
                        turrets'[i].ammo = turrets[i].ammo \/ FiredFrom(i)]_vars
    /\ [][Frame \/ FrameNoSurface => SameAmmo]_vars

(* the empty left turret was passed over and the middle one fired twice *)
C5_Witness ==
    /\ Len(turrets) = TURRET_COUNT
    /\ turrets[1].active /\ turrets[1].ammo = 0
    /\ turrets[2].ammo = EndgameTurrets[2].ammo - 2

(* C6: once the match is WON or LOST nothing but initGame changes the world *)
(* or the match state: the tick returns before its body.                    *)
C6_Terminal ==
    [][(gameState = "WON" \/ gameState = "LOST") => (InitGame \/ Untouched)]_vars

(* a frame fired in the WON state and returned *)
C6_Witness == gameState = "WON" /\ pending = 0

(* C7: a click in a running match with an eligible turret fires from the    *)
(* eligible turret horizontally closest to it (the first on a tie): that    *)
(* turret's ammo drops by 1, one missile with the click as target and speed *)
(* 6 is appended, and nothing else of the match changes.                    *)
Nearest(ts, x, b) ==
    /\ Eligible(ts, b)
    /\ \A j \in DOMAIN ts :
          Eligible(ts, j) =>
              \/ Abs(ts[b].x - x) < Abs(ts[j].x - x)
              \/ (Abs(ts[b].x - x) = Abs(ts[j].x - x) /\ b <= j)

FiresAt(x, y) ==
    \E b \in DOMAIN turrets :
        /\ Nearest(turrets, Px(x), b)
        /\ turrets' = [turrets EXCEPT ![b].ammo = turrets[b].ammo - 1]
        /\ Len(missiles') = Len(missiles) + 1
        /\ SubSeq(missiles', 1, Len(missiles)) = missiles
        /\ missiles'[Len(missiles')].target = Point(Px(x), Px(y))
        /\ missiles'[Len(missiles')].speed = MISSILE_SPEED
        /\ UNCHANGED <<rockets, explosions, cities, score, gameState>>

C7_Fire ==
    [][\A p \in ClickPoints :
          (Click(p[1], p[2]) /\ gameState = "PLAYING" /\ SomeEligible)
              => FiresAt(p[1], p[2])]_vars

(* a click midway between the middle and the right turret, both eligible,   *)
(* was served by the middle one while the empty left turret stood by        *)
C7_Witness ==
    /\ Len(missiles) = 1
    /\ missiles[1].turretIndex = 1
    /\ missiles[1].target.x = Px(42)
    /\ missiles[1].speed = MISSILE_SPEED
    /\ turrets[1].active /\ turrets[1].ammo = 0
    /\ turrets[2].ammo = EndgameTurrets[2].ammo - 1
    /\ Eligible(turrets, 3)

(* C8: a click changes nothing when the match is not in progress or when no *)
(* turret is both active and loaded.                                        *)
C8_NoOp ==
    [][\A p \in ClickPoints :
          (Click(p[1], p[2]) /\ (gameState # "PLAYING" \/ ~SomeEligible))
              => UNCHANGED vars]_vars

(* a running match in which the only active turret is empty *)
C8_Witness ==
    /\ gameState = "PLAYING"
    /\ turrets # <<>>
    /\ ~SomeEligible
    /\ pending > 0

(* C9: initGame leaves a fresh match behind.                                *)
FreshMatch ==
    /\ rockets' = <<>> /\ missiles' = <<>> /\ explosions' = <<>>
    /\ score' = 0
    /\ gameState' = "PLAYING"
    /\ sinceSpawn' = 0
    /\ Len(cities') = CITY_COUNT
    /\ \A i \in DOMAIN cities' : cities'[i].active
    /\ Len(turrets') = TURRET_COUNT
    /\ \A i \in DOMAIN turrets' :
          /\ turrets'[i].active
          /\ turrets'[i].ammo = turrets'[i].maxAmmo
          /\ turrets'[i].maxAmmo = <<20, 40, 20>>[i]

C10_SkipReschedules ==
    [][(gameState = "PLAYING" /\ FrameNoSurface) => (Untouched /\ pending' > 0)]_vars

(* Rockets of the list the tick starts from that reach the ground in it.    *)
(* (A rocket spawned by the tick starts at y = 0 and is more than one step  *)
(* above the ground.)                                                       *)
Lands(r) == r.current.y + r.speed >= r.target.y
LandingPoint(r) == Point(r.current.x, r.current.y + r.speed)
Landing == {i \in DOMAIN rockets : Lands(rockets[i])}

(* Explosions of the list after the tick that the tick created *)
Created == {k \in DOMAIN explosions' : explosions'[k].id >= nextId}

StruckAt(inst) ==
    \E i \in Landing : Abs(inst.x - LandingPoint(rockets[i]).x) < Px(30)

AfterImpacts(old, new) ==
    /\ DOMAIN new = DOMAIN old
    /\ \A k \in DOMAIN old :
          /\ new[k].active = (old[k].active /\ ~StruckAt(old[k]))
          /\ new[k].x = old[k].x

Marked == {j \in DOMAIN rockets' : rockets'[j].id = -1}

InsideBlast(r) ==
    \E k \in DOMAIN explosions' :
        CloserThan(explosions'[k].pos, r.current, explosions'[k].radius)

ChainsAt(p) ==
    {k \in Created : /\ explosions'[k].pos = p
                     /\ explosions'[k].radius = 0
                     /\ explosions'[k].growing
                     /\ explosions'[k].maxRadius = Px(30)}

(* C12 (first half): the explosion step marks a rocket exactly when it is   *)
(* closer to an explosion than that explosion's radius after the update.    *)
MarkedIffInside ==
    \A j \in DOMAIN rockets' : (j \in Marked) <=> InsideBlast(rockets'[j])

(* C12: in the explosion step a rocket is destroyed exactly when its        *)
(* distance to an explosion is less than the updated radius; each destroyed *)
(* rocket awards 20 points and leaves one chained explosion (radius 0,      *)
(* maxRadius 30, growing) at its position.                                  *)
C12_BlastRadius ==
    [][TickRan =>
         /\ MarkedIffInside
         /\ score' = score + 20 * Cardinality(Marked)
         /\ \A j \in Marked :
               Cardinality(ChainsAt(rockets'[j].current))
                 = Cardinality({i \in Marked :
                                  rockets'[i].current = rockets'[j].current})]_vars

CeilDiv(a, b) == (a + b - 1) \div b

(* The explosion at place k of the list is not in the list after the step *)
Purged(k) == \A n \in DOMAIN explosions' : explosions'[n].id # explosions[k].id

Survivor(k) == CHOOSE n \in DOMAIN explosions' : explosions'[n].id = explosions[k].id

(* Radius 0 at creation, +1.5 per tick while growing, -0.8 per tick after,  *)
(* marked done and purged in the tick that brings the radius to 0 or below. *)
RadiusTrace ==
    /\ \A n \in Created : explosions'[n].age = 0 => explosions'[n].radius = 0
    /\ \A n \in DOMAIN explosions' : ~explosions'[n].done
    /\ \A k \in DOMAIN explosions :
          IF Purged(k)
          THEN ~explosions[k].growing /\ explosions[k].radius - SHRINK <= 0
          ELSE /\ explosions[k].growing =>
                      explosions'[Survivor(k)].radius = explosions[k].radius + GROW
               /\ ~explosions[k].growing =>
                      /\ explosions'[Survivor(k)].radius = explosions[k].radius - SHRINK
                      /\ explosions'[Survivor(k)].radius > 0

Lifetime(k) == explosions[k].age + 1

(* C13 as claimed: the radius trace above, and an explosion is updated in   *)
(* ceil(maxRadius / 1.5) + ceil(maxRadius / 0.8) ticks from creation to     *)
(* purge.                                                                   *)
C13_LifetimeFromMaxRadius ==
    [][TickRan =>
         /\ RadiusTrace
         /\ \A k \in DOMAIN explosions :
               Purged(k) =>
                   Lifetime(k) = CeilDiv(explosions[k].maxRadius, GROW)
                                 + CeilDiv(explosions[k].maxRadius, SHRINK)]_vars

(* The first radius that is >= maxRadius: the growth does not stop at       *)
(* maxRadius but at the first multiple of 1.5 that reaches it.              *)
Peak(maxR) == GROW * CeilDiv(maxR, GROW)

(* C13 as amended: the radius trace above, the radius grows until it is     *)
(* >= maxRadius (at most to Peak, 81 for maxRadius 80), and an explosion is *)
(* updated in ceil(maxRadius / 1.5) + ceil(Peak / 0.8) ticks from creation  *)
(* to purge: 58 for maxRadius 30 and 156 for maxRadius 80.                  *)
C13_LifetimeFromPeak ==
    [][TickRan =>
         /\ RadiusTrace
         /\ \A n \in DOMAIN explosions' :
               /\ explosions'[n].radius <= Peak(explosions'[n].maxRadius)
               /\ explosions'[n].growing => explosions'[n].radius < explosions'[n].maxRadius
         /\ \A k \in DOMAIN explosions :
               Purged(k) =>
                   /\ Lifetime(k) = CeilDiv(explosions[k].maxRadius, GROW)
                                    + CeilDiv(Peak(explosions[k].maxRadius), SHRINK)
                   /\ explosions[k].maxRadius = Px(30) => Lifetime(k) = 58
                   /\ explosions[k].maxRadius = Px(80) => Lifetime(k) = 156]_vars

(* a missile blast has been updated 155 times and is about to be purged *)
C13_Witness ==
    \E k \in DOMAIN explosions :
        /\ explosions[k].maxRadius = Px(80)
        /\ explosions[k].age = 155
        /\ ~explosions[k].growing
        /\ explosions[k].radius > 0
        /\ explosions[k].radius <= SHRINK

NothingMarkedLeft ==
    /\ \A j \in DOMAIN rockets : rockets[j].id # -1
    /\ \A j \in DOMAIN missiles : missiles[j].id # -1
    /\ \A k \in DOMAIN explosions : ~explosions[k].done

(* C14: the state a tick leaves behind holds no rocket or missile marked    *)
(* for removal (id = -1) and no explosion that is done, and a rocket that   *)
(* an explosion destroyed does not move or reach the ground in a later tick.*)
C14_NoMarkedLeft ==
    /\ []NothingMarkedLeft
    /\ [][TickRan => \A i \in Landing : rockets[i].id # -1]_vars

(* C15: every missile is removed after finitely many ticks and detonates,   *)
(* also when the click is on its launch point: a missile that ticks have    *)
(* moved `flown` times has a target away from its start and has flown no    *)
(* further than one step short of it.                                       *)
C15_MissileArrives ==
    \A j \in DOMAIN missiles :
        missiles[j].flown >= 1 =>
            /\ Dist2(missiles[j]) > 0
            /\ Sq(Px(missiles[j].speed) * (missiles[j].flown - 1)) <= Dist2(missiles[j])

(* Missiles of the list the tick starts from that reach their target in it *)
Arrives(m) == Reached([m EXCEPT !.flown = m.flown + 1])
Arriving == {j \in DOMAIN missiles : Arrives(missiles[j])}

(* C16: in the tick in which a missile comes closer to its target than its  *)
(* speed, one explosion created with radius 0 and maxRadius 80 stands at    *)
(* the target point, the missile has left the list when the tick ends, and  *)
(* the arrival changes no installation, no ammo and no score.               *)
C16_Detonation ==
    [][TickRan =>
         /\ \A j \in Arriving :
               /\ Cardinality({k \in Created :
                                 /\ explosions'[k].pos = missiles[j].target
                                 /\ explosions'[k].maxRadius = Px(80)
                                 /\ explosions'[k].age = 1
                                 /\ explosions'[k].radius = GROW})
                    = Cardinality({i \in Arriving :
                                 missiles[i].target = missiles[j].target})
               /\ \A n \in DOMAIN missiles' : missiles'[n].id # missiles[j].id
         /\ \A n \in DOMAIN missiles' : missiles'[n].id # -1
         /\ \A j \in DOMAIN missiles \ Arriving :
               \E n \in DOMAIN missiles' : missiles'[n].id = missiles[j].id
         /\ SameAmmo
         /\ Landing = {} => (cities' = cities /\ turrets' = turrets)
         /\ Marked = {} => score' = score]_vars

(* the missile fired at (42, 0) has just detonated there *)
C16_Witness ==
    /\ missiles = <<>>
    /\ \E k \in DOMAIN explosions :
          /\ explosions[k].maxRadius = Px(80)
          /\ explosions[k].pos = Point(Px(42), Px(0))
          /\ explosions[k].age = 1
    /\ turrets[2].ammo = EndgameTurrets[2].ammo - 1

(* Rockets of the list the tick starts from that its rocket step keeps *)
Kept == {i \in DOMAIN rockets : rockets[i].id # -1 /\ ~Lands(rockets[i])}
Spawned == Len(rockets') - Cardinality(Kept)

ActiveNow(insts) == {insts[i].x : i \in {n \in DOMAIN insts : insts[n].active}}

SpawnedRight(dt) ==
    LET gate == sinceSpawn + dt > Max(500, 2000 - 2 * score)
        r == rockets'[Len(rockets')]
    IN  /\ Spawned \in {0, 1}
        /\ Spawned = 1 => gate
        /\ (gate /\ ActiveNow(cities) \cup ActiveNow(turrets) # {}) => Spawned = 1
        /\ gate => sinceSpawn' = 0
        /\ ~gate => sinceSpawn' = sinceSpawn + dt
        /\ Spawned = 1 =>
              /\ r.start.y = 0
              /\ r.target.y = Px(height - 20)
              /\ r.target.x \in ActiveNow(cities) \cup ActiveNow(turrets)

(* C17: a tick creates at most one rocket, and only when more than          *)
(* max(500, 2000 - 2 * score) ms have passed since the last spawn time; the *)
(* rocket starts at y = 0 and aims at (x of an installation active at that  *)
(* moment, height - 20); whenever the gate passes the last spawn time       *)
(* becomes now, otherwise it is left alone.                                 *)
C17_Spawn ==
    [][\A dt \in Dts \cup FastDts : \A pick \in Picks(sinceSpawn + dt) :
          (gameState = "PLAYING" /\ Tick(sinceSpawn + dt, TRUE, pick))
              => SpawnedRight(dt)]_vars

(* a rocket has just been spawned late in the match, where the floor of    *)
(* the spawn interval applies                                              *)
C17_Witness ==
    /\ score >= 750
    /\ sinceSpawn = 0
    /\ Len(rockets) = 1
    /\ rockets[1].id > EndgameIds
    /\ rockets[1].start.y = 0
    /\ rockets[1].current.y = rockets[1].speed
    /\ rockets[1].target.y = Px(height - 20)

Fired == Pointer /\ Len(missiles') = Len(missiles) + 1

LaunchedFrom(off) ==
    LET m == missiles'[Len(missiles')]
    IN  \E b \in DOMAIN turrets :
            /\ turrets'[b].ammo = turrets[b].ammo - 1
            /\ m.turretIndex = b - 1
            /\ m.flown = 0
            /\ m.start = Point(turrets[b].x, Px(height - off))

(* C18 as claimed: a missile created by a click starts at (turret.x,        *)
(* height - 70), 50 above the ground plane height - 20, turret being the    *)
(* turret that fired it, and turretIndex identifies that turret.            *)
C18_LaunchAboveGround == [][Fired => LaunchedFrom(70)]_vars

(* C18 as amended: a missile created by a click starts at (turret.x,        *)
(* height - 50), 30 above the ground plane height - 20, turret being the    *)
(* turret that fired it, and turretIndex identifies that turret.            *)
C18_LaunchPoint == [][Fired => LaunchedFrom(50)]_vars

(* the middle turret has just fired at (42, 0) on the 55 px canvas *)
C18_Witness ==
    /\ Len(missiles) = 1
    /\ missiles[1].flown = 0
    /\ missiles[1].turretIndex = 1
    /\ missiles[1].start = Point(turrets[2].x, Px(5))
    /\ missiles[1].target = Point(Px(42), Px(0))
    /\ turrets[2].ammo = TURRET_AMMO[2] - 1

CreatedAtAge(a) == {k \in Created : explosions'[k].age = a}

(* C20: an explosion chained in the explosion step of a tick is neither     *)
(* advanced nor collision-tested in that tick: when the tick ends it has    *)
(* radius 0 and is growing, at the place of a rocket destroyed in the tick, *)
(* and no rocket is inside it; the explosions that the rocket and missile   *)
(* steps of the tick created have been advanced once.                       *)
C20_ChainNextTick ==
    [][TickRan =>
         /\ Created = CreatedAtAge(0) \cup CreatedAtAge(1)
         /\ \A k \in CreatedAtAge(0) :
               /\ explosions'[k].radius = 0
               /\ explosions'[k].growing
               /\ explosions'[k].maxRadius = Px(30)
               /\ \E j \in Marked : rockets'[j].current = explosions'[k].pos
               /\ \A j \in DOMAIN rockets' :
                     ~CloserThan(explosions'[k].pos, rockets'[j].current,
                                 explosions'[k].radius)
         /\ Marked # {} => CreatedAtAge(0) # {}
         /\ Cardinality(CreatedAtAge(1))
              = Cardinality(Landing) + Cardinality(Arriving)
         /\ \A k \in CreatedAtAge(1) : explosions'[k].radius = GROW]_vars

(* a rocket has just been destroyed by an older explosion and its chained   *)
(* explosion stands at its place with radius 0                              *)
C20_Witness ==
    \E k \in DOMAIN explosions :
        /\ explosions[k].age = 0
        /\ explosions[k].radius = 0
        /\ explosions[k].growing
        /\ \E j \in DOMAIN rockets :
              /\ rockets[j].id = -1
              /\ rockets[j].current = explosions[k].pos
        /\ \E n \in DOMAIN explosions :
              /\ explosions[n].age > 1
              /\ CloserThan(explosions[n].pos, explosions[k].pos, explosions[n].radius)

===========================================================================
